---- MODULE Spec2Model ----
(***************************************************************************)
(* A model of ssm_tools/resolver.py: InstanceResolver (get_list,           *)
(* resolve_instance, print_list) and ContainerResolver (add_container,     *)
(* get_list, resolve_container, print_containers).                         *)
(*                                                                         *)
(* Python strings that the code inspects (lower(), startswith, endswith,   *)
(* split, regular expressions) are sequences of one-character strings, so  *)
(* that those operations are computed and not assumed.  Strings that are   *)
(* only compared with a literal (error codes, tag keys, agent names) are   *)
(* TLA+ strings.  Python's None is the one-element tuple None, which is no *)
(* sequence of one-character strings.                                      *)
(***************************************************************************)
EXTENDS Integers, Sequences, FiniteSets, TLC

VARIABLES
    op,                 \* entry point running: "none", "resolve_instance", "print_list",
                        \* "resolve_container"
    pc,                 \* position inside the entry point
    outcome,            \* "running", "returned", "exit" (sys.exit(1)), "raised"
    error,              \* class of the exception that left the entry point, or "none"
    log,                \* set of <<warning, number>> emitted through logger.warning
    \* ---- InstanceResolver
    keyword,            \* resolve_instance's argument `instance`
    items,              \* get_list's local dict `items`: instance id -> record
    listed,             \* history: the instance ids the inventory pages listed
    step1,              \* history: `items` as it was when step 1 ended
    ec2_instance_ids,   \* the description request batch
    tries,              \* get_list's local `tries`
    ssm_called,         \* history: an inventory page was fetched
    ec2_calls,          \* history: describe_instances calls made
    unread,             \* history: the instance ids on the pages of the response after
                        \* the first, which get_list did not fetch
    result_id,          \* resolve_instance's first returned component
    result_item,        \* resolve_instance's second returned component: {} or {record}
    menu,               \* print_list's menu_data, without the rendered "summary" text
    \* ---- ContainerResolver
    args_cluster,       \* self.args.cluster: None, or the --cluster string
    clusters,           \* get_list's local list `clusters`
    cluster_idx,        \* position of the loop of line 228 in `clusters`
    cur_task,           \* ARN of the task the loop of line 239 is at, or None
    containers,         \* self.containers
    ran,                \* history: <<taskArn, name>> of the containers described with a
                        \* running execute-command agent
    tasks,              \* self._tasks: task ARN -> the clusterArn and group of the task
    got,                \* the list get_list returned to resolve_container
    keywords,           \* resolve_container's argument
    candidates,         \* resolve_container's local list `candidates`
    result              \* what resolve_container returned: {} or {record}

cvars == <<args_cluster, clusters, cluster_idx, cur_task, containers, ran, tasks, got,
           keywords, candidates, result>>

ivars == <<keyword, items, listed, step1, ec2_instance_ids, tries, ssm_called,
           ec2_calls, unread, result_id, result_item, menu>>

-----------------------------------------------------------------------------
(* Strings *)

None == <<"<None>">>

UpperChars == <<"A","B","C","D","E","F","G","H","I","J","K","L","M","N","O","P","Q","R","S","T","U","V","W","X","Y","Z">>
LowerChars == <<"a","b","c","d","e","f","g","h","i","j","k","l","m","n","o","p","q","r","s","t","u","v","w","x","y","z">>

\* str.lower() on one character
LowerChar(c) ==
    IF \E i \in 1..Len(UpperChars) : UpperChars[i] = c
    THEN LowerChars[CHOOSE i \in 1..Len(UpperChars) : UpperChars[i] = c]
    ELSE c

\* str.lower()
Lower(s) == [i \in 1..Len(s) |-> LowerChar(s[i])]

\* str.startswith(p)
StartsWith(s, p) == Len(s) >= Len(p) /\ SubSeq(s, 1, Len(p)) = p

\* str.endswith(p)
EndsWith(s, p) == Len(s) >= Len(p) /\ SubSeq(s, Len(s) - Len(p) + 1, Len(s)) = p

\* the character class [a-f0-9] (the same set as [0-9a-f])
HexChars == {"a","b","c","d","e","f","0","1","2","3","4","5","6","7","8","9"}

\* length of the longest run of [a-f0-9] that starts at position p of s
RECURSIVE HexRun(_, _)
HexRun(s, p) ==
    IF p <= Len(s) /\ s[p] \in HexChars THEN 1 + HexRun(s, p + 1) ELSE 0

\* variant: the pattern ^i-[a-f0-9]+$, without the optional m
IsInstanceId_NoManaged(s) ==
    /\ Len(s) >= 3
    /\ s[1] = "i"
    /\ s[2] = "-"
    /\ HexRun(s, 3) = Len(s) - 2

\* re.match("^m?i-[a-f0-9]+$", s): `$` also matches before one final newline
IsInstanceId(s) ==
    LET b == IF Len(s) >= 1 /\ s[1] = "m" THEN 2 ELSE 1
        n == HexRun(s, b + 2)
    IN  /\ Len(s) >= b + 2
        /\ s[b] = "i"
        /\ s[b + 1] = "-"
        /\ n >= 1
        /\ \/ b + 2 + n = Len(s) + 1
           \/ b + 2 + n = Len(s) /\ s[Len(s)] = "\n"

\* re.findall("i-[0-9a-f]+", s), scanning from position p: leftmost, greedy,
\* non-overlapping matches; returned as the set the caller makes of them
RECURSIVE FindAllFrom(_, _)
FindAllFrom(s, p) ==
    IF p > Len(s) THEN {}
    ELSE IF p + 2 <= Len(s) /\ s[p] = "i" /\ s[p + 1] = "-" /\ HexRun(s, p + 2) >= 1
         THEN {SubSeq(s, p, p + 1 + HexRun(s, p + 2))}
              \cup FindAllFrom(s, p + 2 + HexRun(s, p + 2))
         ELSE FindAllFrom(s, p + 1)

FindInstanceIds(message) == FindAllFrom(message, 1)

-----------------------------------------------------------------------------
(* The values the services and the caller supply *)

\* instance ids the fleet inventory can list: two EC2 ids and a managed one
InventoryIds == { <<"i","-","a">>, <<"i","-","b">>, <<"m","i","-","a">> }

\* instance ids the description service can return: EC2 ids, one of them
\* unknown to the inventory
Ec2Ids == { <<"i","-","a">>, <<"i","-","b">>, <<"i","-","c">> }

HostWeb == <<"W","e","b">>
Ip10 == <<"1","0",".","0",".","0",".","1">>
Ip6 == <<":",":","a">>

\* the Content[0] block of an inventory entity; ComputerName and IpAddress
\* are optional keys: with neither, with a computer name, with an address
InventoryContents ==
    { [InstanceId |-> id] @@ opt :
        id \in InventoryIds,
        opt \in { <<>>, [ComputerName |-> HostWeb], [IpAddress |-> Ip6] } }

\* an instance of a describe_instances page; PrivateIpAddress, PublicIpAddress
\* and Tags are optional keys
InstanceShapes ==
    { [PrivateIpAddress |-> Ip10, PublicIpAddress |-> Ip6,
       Tags |-> << [Key |-> "Name", Value |-> <<"w","e","b">>] >>],
      [PublicIpAddress |-> Ip6,
       Tags |-> << [Key |-> "Env", Value |-> <<"x">>], [Key |-> "Name", Value |-> <<>>] >>],
      <<>> }

DescribedInstances ==
    { [InstanceId |-> id, Placement |-> [AvailabilityZone |-> "us-east-1a"]] @@ s :
        id \in Ec2Ids, s \in InstanceShapes }

\* the instance ids on the pages of a describe_instances response after the
\* first: no further page, or a further page with one instance
LaterPages == { {} } \cup { {id} : id \in Ec2Ids }

\* ClientError responses of describe_instances
MsgOne == <<"T","h","e"," ","i","n","s","t","a","n","c","e"," ","I","D"," ","'","i","-","a","'"," ","d","o","e","s"," ","n","o","t"," ","e","x","i","s","t">>
MsgTwo == <<"T","h","e"," ","i","n","s","t","a","n","c","e"," ","I","D","s"," ","'","i","-","a",","," ","i","-","b","'"," ","d","o"," ","n","o","t"," ","e","x","i","s","t">>
MsgOdd == <<"R","e","q","u","e","s","t"," ","l","i","m","i","t"," ","e","x","c","e","e","d","e","d",".">>

NotFoundErrors ==
    { [Code |-> "InvalidInstanceID.NotFound", Message |-> m] : m \in {MsgOne, MsgTwo, MsgOdd} }

OtherErrors == { [Code |-> "UnauthorizedOperation", Message |-> MsgOdd] }

\* resolve_instance keywords: a name and an address in upper case, and ids
\* (listed by the inventory or not)
InstanceKeywords ==
    { <<"W","E","B">>, <<":",":","A">>,
      <<"i","-","a">>, <<"m","i","-","a">>, <<"i","-","c">> }

\* program constant: `tries = 5`
Tries == 5

-----------------------------------------------------------------------------
(* InstanceResolver.get_list *)

Get(d, k, default) == IF k \in DOMAIN d THEN d[k] ELSE default

\* lines 54-61: the base record of one inventory entity
BaseRecord(content) ==
    [InstanceId |-> content.InstanceId,
     InstanceName |-> <<>>,
     HostName |-> Get(content, "ComputerName", <<>>),
     Addresses |-> << Get(content, "IpAddress", None) >>]

\* lines 27-29: _try_append
TryAppend(list, dict, key) == IF key \in DOMAIN dict THEN Append(list, dict[key]) ELSE list

\* lines 95-97: the last non-empty Name tag wins; without one the name is kept
RECURSIVE NameFromTags(_, _)
NameFromTags(tags, name) ==
    IF tags = <<>> THEN name
    ELSE NameFromTags(Tail(tags),
                      IF Head(tags).Key = "Name" /\ Head(tags).Value # <<>>
                      THEN Head(tags).Value ELSE name)

\* lines 87-97: the record of a described instance after enrichment
Enrich(rec, instance) ==
    LET addrs == TryAppend(TryAppend(<<>>, instance, "PrivateIpAddress"),
                           instance, "PublicIpAddress")
        name == NameFromTags(Get(instance, "Tags", <<>>), rec.InstanceName)
    IN  [k \in DOMAIN rec \cup {"AvailabilityZone"} |->
            CASE k = "Addresses" -> addrs
              [] k = "AvailabilityZone" -> instance.Placement.AvailabilityZone
              [] k = "InstanceName" -> name
              [] OTHER -> rec[k]]

\* variant: without the test of line 83, a described instance gets a record
MergeInstance_AddsUnlisted(its, instance) ==
    LET id == instance.InstanceId
        rec == IF id \in DOMAIN its THEN its[id] ELSE BaseRecord([InstanceId |-> id])
    IN  (id :> Enrich(rec, instance)) @@ its

\* lines 82-99: one instance of a page; instances the inventory did not list
\* are skipped
MergeInstance(its, instance) ==
    IF instance.InstanceId \notin DOMAIN its THEN its
    ELSE [its EXCEPT ![instance.InstanceId] = Enrich(its[instance.InstanceId], instance)]

\* line 66: the step-1 ids that look like EC2 ids
Ec2Batch(its) == { id \in DOMAIN its : StartsWith(id, <<"i","-">>) }

\* line 112: the batch without the ids named by the error message
RepairBatch(batch, message) == batch \ FindInstanceIds(message)

\* the warning of line 107 is not recorded
WarnDegraded == <<"Unable to list instance details", 0>>

\* variant: the loop ends without the warning of line 116
DegradedWarnings_NoWarning(t) == {}

\* lines 115-116
DegradedWarnings(t) == IF t = 0 THEN {WarnDegraded} ELSE {}

\* variant: a not-found error that does not consume an attempt
NextTries_NoDecrement(t) == t

\* line 113
NextTries(t) == t - 1

Init ==
    /\ op = "none"
    /\ pc = "idle"
    /\ outcome = "running"
    /\ error = "none"
    /\ log = {}
    /\ keyword = <<>>
    /\ items = <<>>
    /\ listed = {}
    /\ step1 = <<>>
    /\ ec2_instance_ids = {}
    /\ tries = Tries
    /\ ssm_called = FALSE
    /\ ec2_calls = 0
    /\ unread = {}
    /\ result_id = None
    /\ result_item = {}
    /\ menu = <<>>
    /\ args_cluster = None
    /\ clusters = <<>>
    /\ cluster_idx = 0
    /\ cur_task = None
    /\ containers = <<>>
    /\ ran = {}
    /\ tasks = <<>>
    /\ got = <<>>
    /\ keywords = <<>>
    /\ candidates = <<>>
    /\ result = {}

\* lines 147-155: resolve_instance is entered; an id-shaped keyword is returned
\* at once, any other starts the collection
ResolveInstanceCall(kw) ==
    /\ pc = "idle"
    /\ op' = "resolve_instance"
    /\ keyword' = kw
    /\ IF IsInstanceId(kw)
       THEN /\ result_id' = kw
            /\ result_item' = {}
            /\ outcome' = "returned"
            /\ pc' = "done"
       ELSE /\ pc' = "inventory"
            /\ UNCHANGED <<result_id, result_item, outcome>>
    /\ UNCHANGED cvars
    /\ UNCHANGED <<error, log, items, listed, step1, ec2_instance_ids, tries,
                   ssm_called, ec2_calls, unread,
                   menu>>

\* line 51: the paginator fetches one more inventory page
InventoryPage ==
    /\ pc = "inventory"
    /\ ssm_called' = TRUE
    /\ UNCHANGED cvars
    /\ UNCHANGED <<op, pc, outcome, error, log, keyword, items, listed, step1,
                   ec2_instance_ids, tries, ec2_calls, unread, result_id, result_item,
                   menu>>

\* lines 52-62: one entity of the page in hand
InventoryEntity(content) ==
    /\ pc = "inventory"
    /\ ssm_called
    /\ items' = (content.InstanceId :> BaseRecord(content)) @@ items
    /\ listed' = listed \cup {content.InstanceId}
    /\ UNCHANGED cvars
    /\ UNCHANGED <<op, pc, outcome, error, log, keyword, step1, ec2_instance_ids,
                   tries, ssm_called, ec2_calls, unread, result_id, result_item,
                   menu>>

\* lines 65-68: the pages are exhausted; the batch and the retry budget are set
InventoryEnd ==
    /\ pc = "inventory"
    /\ ssm_called
    /\ ec2_instance_ids' = Ec2Batch(items)
    /\ tries' = Tries
    /\ step1' = items
    /\ pc' = "describe"
    /\ UNCHANGED cvars
    /\ UNCHANGED <<op, outcome, error, log, keyword, items, listed, ssm_called,
                   ec2_calls, unread, result_id, result_item,
                   menu>>

\* lines 69, 78-79: an attempt whose first page arrives
DescribeOk ==
    /\ pc = "describe"
    /\ tries # 0
    /\ ec2_calls' = ec2_calls + 1
    /\ pc' = "page"
    /\ UNCHANGED cvars
    /\ UNCHANGED <<op, outcome, error, log, keyword, items, listed, step1,
                   ec2_instance_ids, tries, ssm_called, unread, result_id, result_item,
                   menu>>

\* lines 80-99: one instance of the first page
DescribeInstance(instance) ==
    /\ pc = "page"
    /\ items' = MergeInstance(items, instance)
    /\ UNCHANGED cvars
    /\ UNCHANGED <<op, pc, outcome, error, log, keyword, listed, step1,
                   ec2_instance_ids, tries, ssm_called, ec2_calls, unread,
                   result_id, result_item,
                   menu>>

\* line 100: `return items` stands inside the loop over the pages, after the
\* loop over the first page's reservations: get_list returns here and no
\* further page is fetched; `rest` is what the further pages of the response
\* hold, none of it an instance the first page held
DescribeReturn(rest) ==
    /\ pc = "page"
    /\ \A id \in rest \cap DOMAIN items : "AvailabilityZone" \notin DOMAIN items[id]
    /\ unread' = rest
    /\ pc' = "got_list"
    /\ UNCHANGED cvars
    /\ UNCHANGED <<op, outcome, error, log, keyword, items, listed, step1,
                   ec2_instance_ids, tries, ssm_called, ec2_calls, result_id, result_item,
                   menu>>

\* lines 102-118: an attempt that fails with a ClientError
DescribeError(ex) ==
    /\ pc = "describe"
    /\ tries # 0
    /\ ec2_calls' = ec2_calls + 1
    /\ IF ex.Code # "InvalidInstanceID.NotFound"
       THEN /\ outcome' = "raised"
            /\ error' = "ClientError"
            /\ pc' = "done"
            /\ UNCHANGED <<log, ec2_instance_ids, tries>>
       ELSE /\ ec2_instance_ids' = RepairBatch(ec2_instance_ids, ex.Message)
            /\ tries' = NextTries(tries)
            /\ log' = log \cup DegradedWarnings(tries')
            /\ pc' = IF tries' = 0 THEN "got_list" ELSE "describe"
            /\ UNCHANGED <<outcome, error>>
    /\ UNCHANGED cvars
    /\ UNCHANGED <<op, keyword, items, listed, step1, ssm_called, unread, result_id, result_item,
                   menu>>

\* ", ".join(list) raises TypeError when an element is not a string
JoinRaises(list) == \E i \in 1..Len(list) : list[i] = None

\* sep.join(list) of a list of strings
RECURSIVE Join(_, _)
Join(sep, list) ==
    IF list = <<>> THEN <<>>
    ELSE IF Len(list) = 1 THEN list[1]
    ELSE list[1] \o sep \o Join(sep, Tail(list))

\* line 158: the lower-cased keyword is looked up in the list made of the
\* lower-cased host name, the lower-cased instance name and the addresses as
\* they are
KeywordMatches(item, kw) ==
    \/ Lower(kw) = Lower(item.HostName)
    \/ Lower(kw) = Lower(item.InstanceName)
    \/ \E i \in 1..Len(item.Addresses) : Lower(kw) = item.Addresses[i]

\* lines 153-159: the ids of the matching records
MatchingInstances(its, kw) == { id \in DOMAIN its : KeywordMatches(its[id], kw) }

\* lines 161-176: the rest of resolve_instance, once get_list has returned
ResolveInstanceMatch ==
    /\ pc = "got_list"
    /\ op = "resolve_instance"
    /\ pc' = "done"
    /\ LET instances == MatchingInstances(items, keyword)
       IN  IF instances = {}
           THEN /\ result_id' = <<>>
                /\ result_item' = {}
                /\ outcome' = "returned"
                /\ UNCHANGED <<error, log>>
           ELSE IF Cardinality(instances) > 1
           THEN /\ outcome' = "exit"
                /\ log' = log \cup {<<"Found %d instances for", Cardinality(instances)>>}
                /\ UNCHANGED <<error, result_id, result_item>>
           ELSE LET id == CHOOSE i \in instances : TRUE
                IN  IF JoinRaises(items[id].Addresses)
                    THEN \* line 172: the confirmation row joins the addresses
                         /\ outcome' = "raised"
                         /\ error' = "TypeError"
                         /\ UNCHANGED <<log, result_id, result_item>>
                    ELSE /\ result_id' = id
                         /\ result_item' = {items[id]}
                         /\ outcome' = "returned"
                         /\ UNCHANGED <<error, log>>
    /\ UNCHANGED cvars
    /\ UNCHANGED <<op, keyword, items, listed, step1, ec2_instance_ids, tries,
                   ssm_called, ec2_calls, unread,
                   menu>>


vars == <<op, pc, outcome, error, log, ivars, cvars>>

\* one call of InstanceResolver.resolve_instance
Next ==
    \/ \E kw \in InstanceKeywords : ResolveInstanceCall(kw)
    \/ InventoryPage
    \/ \E content \in InventoryContents : InventoryEntity(content)
    \/ InventoryEnd
    \/ DescribeOk
    \/ \E instance \in DescribedInstances : DescribeInstance(instance)
    \/ \E rest \in LaterPages : DescribeReturn(rest)
    \/ \E ex \in NotFoundErrors \cup OtherErrors : DescribeError(ex)
    \/ ResolveInstanceMatch

Spec == Init /\ [][Next]_vars

-----------------------------------------------------------------------------
(* The values the container service and the caller supply *)

ClusterProd == <<"a","r","n",":","a","w","s",":","e","c","s",":","r",":","1",":","c","l","u","s","t","e","r","/","p","r","o","d">>
ClusterStaging == <<"a","r","n",":","a","w","s",":","e","c","s",":","r",":","1",":","c","l","u","s","t","e","r","/","s","t","a","g","i","n","g">>
ClusterPreprod == <<"a","r","n",":","a","w","s",":","e","c","s",":","r",":","1",":","c","l","u","s","t","e","r","/","p","r","e","p","r","o","d">>

\* cluster ARNs list_clusters can return
ClusterArns == { ClusterProd, ClusterStaging, ClusterPreprod }

\* values of --cluster: not given, empty, short names, a full ARN
ClusterFilters ==
    { None, <<>>, <<"p","r","o","d">>, <<"n","o","n","e","x","i","s","t","e","n","t">>, ClusterStaging }

TaskProd == <<"a","r","n",":","a","w","s",":","e","c","s",":","r",":","1",":","t","a","s","k","/","p","r","o","d","/","t","1">>
TaskStaging == <<"a","r","n",":","a","w","s",":","e","c","s",":","r",":","1",":","t","a","s","k","/","s","t","a","g","i","n","g","/","t","2">>

NameApp == <<"a","p","p">>
NameSidecar == <<"s","i","d","e","c","a","r">>
GroupWeb == <<"s","e","r","v","i","c","e",":","w","e","b">>
IpTask1 == <<"1","0",".","0",".","0",".","1">>
IpTask2 == <<"1","0",".","0",".","0",".","2">>

\* the managedAgents of a container description: the key is optional; the
\* execute-command agent running, stopped, listed twice, or another agent
AgentLists ==
    { <<>>,
      [managedAgents |-> << [name |-> "ExecuteCommandAgent", lastStatus |-> "RUNNING"] >>],
      [managedAgents |-> << [name |-> "ExecuteCommandAgent", lastStatus |-> "STOPPED"] >>],
      [managedAgents |-> << [name |-> "ExecuteCommandAgent", lastStatus |-> "RUNNING"],
                            [name |-> "ExecuteCommandAgent", lastStatus |-> "RUNNING"] >>],
      [managedAgents |-> << [name |-> "OtherAgent", lastStatus |-> "RUNNING"] >>] }

\* the networkInterfaces of a container description: one interface with
\* address `ip` (awsvpc network mode), or none (bridge and host network modes)
NetworkInterfaces(ip) == { << [privateIpv4Address |-> ip] >>, <<>> }

\* the container descriptions of task `arn`, whose network interface has `ip`
ContainerDescriptions(arn, ip) ==
    { [name |-> n, taskArn |-> arn, networkInterfaces |-> ni] @@ a :
        n \in {NameApp, NameSidecar}, ni \in NetworkInterfaces(ip), a \in AgentLists }

SeqsUpTo(S, n) == UNION { [1..k -> S] : k \in 0..n }

\* the container descriptions describe_tasks can return
DescribedContainers ==
    ContainerDescriptions(TaskProd, IpTask1) \cup ContainerDescriptions(TaskStaging, IpTask2)

\* the task descriptions describe_tasks can return, without their containers:
\* one task in the prod cluster and one in the staging cluster, of the same
\* task group
DescribedTasks ==
    { [taskArn |-> TaskProd, clusterArn |-> ClusterProd, group |-> GroupWeb],
      [taskArn |-> TaskStaging, clusterArn |-> ClusterStaging, group |-> GroupWeb] }

\* resolve_container keywords: a task id, a container name in both cases, an
\* address and a group name
ContainerKeywords ==
    { <<"t","1">>, NameSidecar, <<"S","I","D","E","C","A","R">>, IpTask2, GroupWeb }

\* bound: keywords in one resolve_container call
MaxKeywords == 2

\* bound: cluster ARNs list_clusters returns
MaxClusters == 2

\* bound: records held by self.containers
MaxContainers == 2

-----------------------------------------------------------------------------
(* ContainerResolver *)

\* str.split(sep) for a one-character separator: the pieces, and the piece
\* being read
RECURSIVE SplitFrom(_, _, _)
SplitFrom(s, sep, piece) ==
    IF s = <<>> THEN << piece >>
    ELSE IF Head(s) = sep THEN << piece >> \o SplitFrom(Tail(s), sep, <<>>)
    ELSE SplitFrom(Tail(s), sep, Append(piece, Head(s)))

Split(s, sep) == SplitFrom(s, sep, <<>>)

\* line 191: container["taskArn"].split(":")[-1].split("/")
TaskParsed(taskArn) ==
    LET by_colon == Split(taskArn, ":")
    IN  Split(by_colon[Len(by_colon)], "/")

\* lines 190-202: the record add_container appends (Python indexes from 0)
ContainerRecord(container, _tasks) ==
    [cluster_name |-> TaskParsed(container.taskArn)[2],
     task_id |-> TaskParsed(container.taskArn)[3],
     cluster_arn |-> _tasks[container.taskArn].clusterArn,
     task_arn |-> container.taskArn,
     group_name |-> _tasks[container.taskArn].group,
     container_name |-> container.name,
     container_ip |-> container.networkInterfaces[1].privateIpv4Address]

\* line 212: the truth value of self.args.cluster
Truthy(x) == x # None /\ x # <<>>

\* variant: the short name is matched as a bare suffix, without the /
ClusterMatches_NoSlash(cluster, f) ==
    \/ StartsWith(f, <<"a","r","n",":">>) /\ cluster = f
    \/ EndsWith(cluster, f)

\* lines 215-217
ClusterMatches(cluster, f) ==
    \/ StartsWith(f, <<"a","r","n",":">>) /\ cluster = f
    \/ EndsWith(cluster, <<"/">> \o f)

\* lines 213-220: the first matching cluster, or none
RECURSIVE FilterClusters(_, _)
FilterClusters(cs, f) ==
    IF cs = <<>> THEN <<>>
    ELSE IF ClusterMatches(Head(cs), f) THEN << Head(cs) >>
    ELSE FilterClusters(Tail(cs), f)

\* line 246
AgentRuns(agent) == agent.name = "ExecuteCommandAgent" /\ agent.lastStatus = "RUNNING"

\* lines 245-247: one add_container per running execute-command agent entry
RECURSIVE AddForAgents(_, _, _, _)
AddForAgents(agents, container, _tasks, acc) ==
    IF agents = <<>> THEN acc
    ELSE AddForAgents(Tail(agents), container, _tasks,
                      IF AgentRuns(Head(agents))
                      THEN Append(acc, ContainerRecord(container, _tasks))
                      ELSE acc)

\* lines 243-247: one container of a task
AddForContainer(container, _tasks, acc) ==
    IF "managedAgents" \notin DOMAIN container THEN acc
    ELSE AddForAgents(container.managedAgents, container, _tasks, acc)

\* lines 243-246: add_container is called for the container
HasRunningAgent(container) ==
    /\ "managedAgents" \in DOMAIN container
    /\ \E i \in 1..Len(container.managedAgents) : AgentRuns(container.managedAgents[i])

\* line 200: container["networkInterfaces"][0] raises IndexError on an empty list
AddContainerRaises(container) == container.networkInterfaces = <<>>

\* the order of characters by code point, for the characters the model uses
CharOrder == <<" ","'",",","-",".","/","0","1","2","3","4","5","6","7","8","9",":","A","B","C","D","E","F","G","H","I","J","K","L","M","N","O","P","Q","R","S","T","U","V","W","X","Y","Z","a","b","c","d","e","f","g","h","i","j","k","l","m","n","o","p","q","r","s","t","u","v","w","x","y","z">>

Ord(c) == CHOOSE i \in 1..Len(CharOrder) : CharOrder[i] = c

\* str < str
RECURSIVE StrLess(_, _)
StrLess(a, b) ==
    IF b = <<>> THEN FALSE
    ELSE IF a = <<>> THEN TRUE
    ELSE IF Head(a) = Head(b) THEN StrLess(Tail(a), Tail(b))
    ELSE Ord(Head(a)) < Ord(Head(b))

\* line 254: the sort key [cluster_name, container_name], compared as lists
KeyLess(x, y) ==
    \/ StrLess(x.cluster_name, y.cluster_name)
    \/ x.cluster_name = y.cluster_name /\ StrLess(x.container_name, y.container_name)

\* list.sort is stable: x goes after the elements that are not greater
RECURSIVE InsertSorted(_, _)
InsertSorted(x, sorted) ==
    IF sorted = <<>> THEN << x >>
    ELSE IF KeyLess(x, Head(sorted)) THEN << x >> \o sorted
    ELSE << Head(sorted) >> \o InsertSorted(x, Tail(sorted))

RECURSIVE SortContainers(_)
SortContainers(list) ==
    IF list = <<>> THEN <<>>
    ELSE InsertSorted(list[Len(list)], SortContainers(SubSeq(list, 1, Len(list) - 1)))

\* line 257
WithoutArns(c) == [k \in DOMAIN c \ {"cluster_arn", "task_arn"} |-> c[k]]

StripAll(list) == [i \in 1..Len(list) |-> WithoutArns(list[i])]

\* variant: without the deep copy of line 252 the caller's records are sorted and stripped
PrintContainers_NoCopy(list) ==
    [containers |-> StripAll(SortContainers(list)),
     menu |-> StripAll(SortContainers(list))]

\* lines 251-269: print_containers works on a deep copy: the caller's list is
\* as it was, and the menu holds the sorted rows without the two ARNs
PrintContainers(list) ==
    [containers |-> list,
     menu |-> StripAll(SortContainers(list))]

\* variant: container_ip left out of the fields compared
KeywordIn_NoIp(container, k) ==
    k \in { container.group_name, container.task_id, container.container_name }

\* lines 291-296
KeywordIn(container, k) ==
    k \in { container.group_name, container.task_id, container.container_name,
            container.container_ip }

\* lines 290-304: the inner loop; TRUE when no keyword broke out of it
RECURSIVE AllKeywordsIn(_, _)
AllKeywordsIn(container, ks) ==
    IF ks = <<>> THEN TRUE
    ELSE IF ~KeywordIn(container, Head(ks)) THEN FALSE
    ELSE AllKeywordsIn(container, Tail(ks))

\* lines 288-312: the outer loop
RECURSIVE Candidates(_, _)
Candidates(cs, ks) ==
    IF cs = <<>> THEN <<>>
    ELSE (IF AllKeywordsIn(Head(cs), ks) THEN << Head(cs) >> ELSE <<>>)
         \o Candidates(Tail(cs), ks)

WarnNoClusters == <<"No ECS Clusters found.", 0>>
WarnNoContainers == <<"No Execute-Command capable containers found!", 0>>
WarnNoMatch == <<"No container matches", 0>>
WarnFound(n) == <<"Found %d instances for", n>>

\* lines 180-188, 280-281: a resolver is made with its arguments and
\* resolve_container enters get_list
ResolveContainerCall(f) ==
    /\ pc = "idle"
    /\ op' = "resolve_container"
    /\ args_cluster' = f
    /\ pc' = "clusters"
    /\ UNCHANGED <<cur_task, outcome, error, log, ivars, clusters, cluster_idx, containers, ran,
                   tasks, got, keywords, candidates, result>>

\* lines 209-210: one more cluster ARN of the list_clusters pages
ListCluster(arn) ==
    /\ pc = "clusters"
    /\ Len(clusters) < MaxClusters
    /\ clusters' = Append(clusters, arn)
    /\ UNCHANGED <<cur_task, op, pc, outcome, error, log, ivars, args_cluster, cluster_idx,
                   containers, ran, tasks, got, keywords, candidates, result>>

\* lines 212-224: the pages are exhausted; the filter is applied
ClustersListed ==
    /\ pc = "clusters"
    /\ clusters' = IF Truthy(args_cluster) THEN FilterClusters(clusters, args_cluster)
                   ELSE clusters
    /\ IF clusters' = <<>>
       THEN /\ log' = log \cup {WarnNoClusters}
            /\ got' = <<>>
            /\ pc' = "got_containers"
            /\ UNCHANGED cluster_idx
       ELSE /\ cluster_idx' = 1
            /\ pc' = "tasks"
            /\ UNCHANGED <<log, got>>
    /\ UNCHANGED <<cur_task, op, outcome, error, ivars, args_cluster, containers, ran, tasks,
                   keywords, candidates, result>>

\* lines 239-241: the next task of a describe_tasks response for the cluster
\* in hand
DescribeTask(task) ==
    /\ pc = "tasks"
    /\ task.clusterArn = clusters[cluster_idx]
    /\ tasks' = (task.taskArn :> [clusterArn |-> task.clusterArn, group |-> task.group]) @@ tasks
    /\ cur_task' = task.taskArn
    /\ UNCHANGED <<op, pc, outcome, error, log, ivars, args_cluster, clusters,
                   cluster_idx, containers, ran, got, keywords, candidates, result>>

\* lines 242-247: the next container of the task in hand; the first
\* add_container call for a container without a network interface raises
DescribeContainer(container) ==
    /\ pc = "tasks"
    /\ container.taskArn = cur_task
    /\ ran' = IF HasRunningAgent(container)
              THEN ran \cup {<<container.taskArn, container.name>>} ELSE ran
    /\ IF HasRunningAgent(container) /\ AddContainerRaises(container)
       THEN /\ outcome' = "raised"
            /\ error' = "IndexError"
            /\ pc' = "done"
            /\ UNCHANGED containers
       ELSE /\ containers' = AddForContainer(container, tasks, containers)
            /\ Len(containers') <= MaxContainers
            /\ UNCHANGED <<pc, outcome, error>>
    /\ UNCHANGED <<op, log, ivars, args_cluster, clusters,
                   cluster_idx, cur_task, tasks, got, keywords, candidates, result>>

\* lines 228-235, 249: the task pages of the cluster in hand are exhausted (or
\* a page held no task): the next cluster, or the return of self.containers
ClusterDone ==
    /\ pc = "tasks"
    /\ cur_task' = None
    /\ IF cluster_idx < Len(clusters)
       THEN /\ cluster_idx' = cluster_idx + 1
            /\ UNCHANGED <<pc, got>>
       ELSE /\ got' = containers
            /\ pc' = "got_containers"
            /\ UNCHANGED cluster_idx
    /\ UNCHANGED <<op, outcome, error, log, ivars, args_cluster, clusters,
                   containers, ran, tasks, keywords, candidates, result>>

\* lines 282-323: the rest of resolve_container, called with keywords `ks`,
\* which it first reads here
ResolveContainerMatch(ks) ==
    /\ pc = "got_containers"
    /\ op = "resolve_container"
    /\ pc' = "done"
    /\ keywords' = ks
    /\ IF got = <<>>
       THEN /\ log' = log \cup {WarnNoContainers}
            /\ outcome' = "exit"
            /\ UNCHANGED <<error, candidates, result>>
       ELSE LET cands == Candidates(got, ks)
            IN  IF cands = <<>>
                THEN /\ log' = log \cup {WarnNoMatch}
                     /\ outcome' = "exit"
                     /\ candidates' = cands
                     /\ UNCHANGED <<error, result>>
                ELSE IF Len(cands) = 1
                THEN /\ candidates' = PrintContainers(cands).containers
                     /\ result' = {candidates'[1]}
                     /\ outcome' = "returned"
                     /\ UNCHANGED <<error, log>>
                ELSE IF ks = <<>>
                THEN \* line 320 reads `keyword`, which the loop of line 290
                     \* never bound
                     /\ outcome' = "raised"
                     /\ error' = "UnboundLocalError"
                     /\ candidates' = cands
                     /\ UNCHANGED <<log, result>>
                ELSE /\ log' = log \cup {WarnFound(Len(cands))}
                     /\ candidates' = PrintContainers(cands).containers
                     /\ outcome' = "exit"
                     /\ UNCHANGED <<error, result>>
    /\ UNCHANGED <<cur_task, op, ivars, args_cluster, clusters, cluster_idx, containers, ran,
                   tasks, got>>

\* one call of ContainerResolver.resolve_container on a new resolver
ContainerNext ==
    \/ \E f \in ClusterFilters : ResolveContainerCall(f)
    \/ \E arn \in ClusterArns : ListCluster(arn)
    \/ ClustersListed
    \/ \E task \in DescribedTasks : DescribeTask(task)
    \/ \E container \in DescribedContainers : DescribeContainer(container)
    \/ ClusterDone
    \/ \E ks \in SeqsUpTo(ContainerKeywords, MaxKeywords) : ResolveContainerMatch(ks)

ContainerSpec == Init /\ [][ContainerNext]_vars

-----------------------------------------------------------------------------
(* InstanceResolver.print_list *)

WarnNoInstances == <<"No instances registered in SSM!", 0>>

\* line 129: x.get("InstanceName") or x.get("HostName")
SortKey(x) == IF x.InstanceName # <<>> THEN x.InstanceName ELSE x.HostName

\* lines 127-129: the orders list.sort can leave the records in.  The sort is
\* stable and records with equal keys stay in the order the inventory first
\* listed them, which `items` does not keep: every order of equal keys stands
\* for some order of listing.
SortedOrders(its) ==
    { order \in [1..Cardinality(DOMAIN its) -> DOMAIN its] :
        /\ \A i, j \in DOMAIN order : order[i] = order[j] => i = j
        /\ \A i, j \in DOMAIN order :
              i < j => ~StrLess(SortKey(its[order[j]]), SortKey(its[order[i]])) }

\* lines 132-133 on one record: the join raises TypeError on an address that
\* is None, then the del raises KeyError on a record without the key
RowError(instance) ==
    IF JoinRaises(instance.Addresses) THEN "TypeError"
    ELSE IF "AvailabilityZone" \notin DOMAIN instance THEN "KeyError"
    ELSE "none"

\* lines 132-133 on one record that raises neither
Row(instance) ==
    [k \in DOMAIN instance \ {"AvailabilityZone"} |->
        IF k = "Addresses" THEN Join(<<",", " ">>, instance.Addresses) ELSE instance[k]]

\* lines 131-133: the error of the first record of the list that raises
RECURSIVE FirstRowError(_)
FirstRowError(list) ==
    IF list = <<>> THEN "none"
    ELSE IF RowError(Head(list)) # "none" THEN RowError(Head(list))
    ELSE FirstRowError(Tail(list))

\* lines 120-121: print_list enters get_list
PrintListCall ==
    /\ pc = "idle"
    /\ op' = "print_list"
    /\ pc' = "inventory"
    /\ UNCHANGED cvars
    /\ UNCHANGED <<outcome, error, log, ivars>>

\* lines 123-145: the rest of print_list, once get_list has returned; tabulate
\* renders one line per record, which becomes the entry's "summary"
PrintListRows ==
    /\ pc = "got_list"
    /\ op = "print_list"
    /\ pc' = "done"
    /\ IF DOMAIN items = {}
       THEN /\ log' = log \cup {WarnNoInstances}
            /\ outcome' = "exit"
            /\ UNCHANGED <<error, menu>>
       ELSE \E order \in SortedOrders(items) :
              LET items_list == [i \in DOMAIN order |-> items[order[i]]]
              IN  IF FirstRowError(items_list) # "none"
                  THEN /\ outcome' = "raised"
                       /\ error' = FirstRowError(items_list)
                       /\ UNCHANGED <<log, menu>>
                  ELSE /\ menu' = [i \in DOMAIN items_list |-> Row(items_list[i])]
                       /\ outcome' = "returned"
                       /\ UNCHANGED <<error, log>>
    /\ UNCHANGED cvars
    /\ UNCHANGED <<op, keyword, items, listed, step1, ec2_instance_ids, tries,
                   ssm_called, ec2_calls, unread, result_id, result_item>>

\* one call of InstanceResolver.print_list
PrintNext ==
    \/ PrintListCall
    \/ InventoryPage
    \/ \E content \in InventoryContents : InventoryEntity(content)
    \/ InventoryEnd
    \/ DescribeOk
    \/ \E instance \in DescribedInstances : DescribeInstance(instance)
    \/ \E rest \in LaterPages : DescribeReturn(rest)
    \/ \E ex \in NotFoundErrors \cup OtherErrors : DescribeError(ex)
    \/ PrintListRows

PrintSpec == Init /\ [][PrintNext]_vars

-----------------------------------------------------------------------------
(* Properties of InstanceResolver *)

\* The match rule of the specification: host name or instance name equal to
\* the keyword ignoring case, or an address equal to the keyword as it is.
StatedMatch(item, kw) ==
    \/ Lower(item.HostName) = Lower(kw)
    \/ Lower(item.InstanceName) = Lower(kw)
    \/ \E i \in 1..Len(item.Addresses) : item.Addresses[i] = kw

StatedMatches == { id \in DOMAIN items : StatedMatch(items[id], keyword) }

\* resolve_instance has finished on a keyword that is not id-shaped, the
\* collection having returned
ResolvedByKeyword ==
    /\ op = "resolve_instance"
    /\ pc = "done"
    /\ ~IsInstanceId(keyword)
    /\ error # "ClientError"

\* C1: for a keyword that is not id-shaped, resolve_instance returns
\* (instance_id, record) iff exactly one collected record matches (host name
\* or instance name ignoring case, an address exactly), returns ('', {}) when
\* none matches and exits when more than one matches.
C1_ResolveByKeyword ==
    ResolvedByKeyword =>
        /\ Cardinality(StatedMatches) = 1 =>
              /\ outcome = "returned"
              /\ result_id \in StatedMatches
              /\ result_item = {items[result_id]}
        /\ StatedMatches = {} =>
              /\ outcome = "returned"
              /\ result_id = <<>>
              /\ result_item = {}
        /\ Cardinality(StatedMatches) > 1 => outcome = "exit"

\* The pattern ^m?i-[a-f0-9]+$ said in words: an optional m, then i-, then one
\* or more of a-f and 0-9, up to the end (or up to one final newline).
IdShaped(s) ==
    LET t == IF s # <<>> /\ Head(s) = "m" THEN Tail(s) ELSE s
        u == IF t # <<>> /\ t[Len(t)] = "\n" THEN SubSeq(t, 1, Len(t) - 1) ELSE t
    IN  /\ Len(u) >= 3
        /\ u[1] = "i"
        /\ u[2] = "-"
        /\ \A i \in 3..Len(u) :
              u[i] \in {"a","b","c","d","e","f"} \cup {"0","1","2","3","4","5","6","7","8","9"}

\* C5: for a keyword that matches ^m?i-[a-f0-9]+$, resolve_instance returns the
\* keyword as the instance id and no inventory or description call was made.
C5_IdKeywordNoCollection ==
    (op = "resolve_instance" /\ IdShaped(keyword)) =>
        /\ pc = "done"
        /\ outcome = "returned"
        /\ result_id = keyword
        /\ ~ssm_called
        /\ ec2_calls = 0

C5_Witness ==
    /\ op = "resolve_instance"
    /\ keyword = <<"m","i","-","a">>
    /\ outcome = "returned"
    /\ result_id = <<"m","i","-","a">>

\* the ids the repair loop has taken out of the batch
Removed == Ec2Batch(step1) \ ec2_instance_ids

\* C6: whenever get_list returns, the keys of the returned mapping are exactly
\* the ids the inventory pages listed, one record per id.
C6_KeysAreInventoryIds ==
    pc = "got_list" =>
        /\ DOMAIN items = listed
        /\ \A id \in DOMAIN items : items[id].InstanceId = id

C6_Witness ==
    /\ pc = "got_list"
    /\ tries # 0
    /\ Removed # {}
    /\ ec2_instance_ids # {}
    /\ <<"m","i","-","a">> \in DOMAIN items

\* a describe_instances attempt that ended with the not-found error
NotFoundStep == pc = "describe" /\ pc' \in {"describe", "got_list"}

\* C7: describe_instances is called at most 5 times in a run of get_list, each
\* not-found error consumes one attempt, and the batch is never enlarged.
C7_AtMostFiveAttempts ==
    /\ [](ec2_calls <= 5)
    /\ [][NotFoundStep => tries' = tries - 1 /\ ec2_calls' = ec2_calls + 1]_<<pc, tries, ec2_calls>>
    /\ [][pc # "inventory" => ec2_instance_ids' \subseteq ec2_instance_ids]_ec2_instance_ids

C7_Witness ==
    /\ pc = "got_list"
    /\ ec2_calls = 5
    /\ tries = 1
    /\ Removed # {}

\* C8: after 5 not-found errors get_list returns normally, with the warning
\* logged and the step-1 records unchanged; an error of another class
\* propagates at once, with no further attempt.
C8_DegradedReturn ==
    /\ []((pc = "got_list" /\ tries = 0) =>
            /\ ec2_calls = 5
            /\ outcome = "running"
            /\ error = "none"
            /\ WarnDegraded \in log
            /\ items = step1)
    /\ [](error = "ClientError" => outcome = "raised" /\ pc = "done")
    /\ [][error = "ClientError" => ec2_calls' = ec2_calls]_ec2_calls

C8_Witness ==
    /\ pc = "got_list"
    /\ tries = 0
    /\ ec2_instance_ids # {}
    /\ Cardinality(DOMAIN items) = 3

\* C9: with an empty request batch, step 2 leaves every step-1 record as it
\* was, whatever the description service answers.
C9_EmptyBatchLeavesRecords ==
    (pc \in {"page", "got_list"} /\ ec2_instance_ids = {}) => items = step1

\* C12: when a description call succeeds, whatever the number of pages of the
\* response, every instance of every page that is in the step-1 set has been
\* enriched (addresses, availability zone, name) when get_list returns.
C12_EveryPageEnriched ==
    (pc = "got_list" /\ tries # 0) =>
        \A id \in unread \cap DOMAIN step1 :
            /\ "AvailabilityZone" \in DOMAIN items[id]
            /\ None \notin { items[id].Addresses[i] : i \in 1..Len(items[id].Addresses) }

\* C14: print_list, on every non-empty record set get_list returns (records
\* step 2 did not enrich included), completes without error and returns one
\* menu entry per collected record, each without the availability zone and
\* with its addresses joined with ", "; on an empty set it warns and exits.
C14_PrintListCompletes ==
    (op = "print_list" /\ pc = "done" /\ error # "ClientError") =>
        IF DOMAIN items = {}
        THEN /\ outcome = "exit"
             /\ WarnNoInstances \in log
        ELSE /\ outcome = "returned"
             /\ error = "none"
             /\ Len(menu) = Cardinality(DOMAIN items)
             /\ { menu[i].InstanceId : i \in 1..Len(menu) } = DOMAIN items
             /\ \A i \in 1..Len(menu) :
                   /\ "AvailabilityZone" \notin DOMAIN menu[i]
                   /\ menu[i].Addresses = Join(<<",", " ">>, items[menu[i].InstanceId].Addresses)

-----------------------------------------------------------------------------
(* Properties of ContainerResolver *)

\* resolve_container has finished on a non-empty collected list
ResolvedOnContainers ==
    /\ op = "resolve_container"
    /\ pc = "done"
    /\ got # <<>>

\* every keyword equals one of the four fields of c
StatedCandidate(c) ==
    \A i \in 1..Len(keywords) :
        \/ keywords[i] = c.group_name
        \/ keywords[i] = c.task_id
        \/ keywords[i] = c.container_name
        \/ keywords[i] = c.container_ip

StatedCandidates == SelectSeq(got, StatedCandidate)

\* C2: the candidate list is the collected containers, in collection order,
\* each of whose fields group_name, task_id, container_name, container_ip
\* between them equal every keyword exactly; with no keyword it is the whole
\* collected list.
C2_CandidatesMatchAllKeywords ==
    ResolvedOnContainers =>
        /\ candidates = StatedCandidates
        /\ keywords = <<>> => candidates = got

C2_Witness ==
    /\ ResolvedOnContainers
    /\ Len(keywords) = 2
    /\ keywords[1] # keywords[2]
    /\ Len(got) = 2
    /\ Len(candidates) = 1

\* C3: resolve_container returns only when there is exactly one candidate, and
\* then returns that collected record with its cluster_arn and task_arn; with
\* no candidate or several it does not return.
C3_ReturnsOnlyTheSingleCandidate ==
    (op = "resolve_container" /\ pc = "done") =>
        /\ outcome = "returned" =>
              /\ Len(StatedCandidates) = 1
              /\ result = {StatedCandidates[1]}
              /\ \A r \in result :
                    /\ {"cluster_arn", "task_arn"} \subseteq DOMAIN r
                    /\ r.task_arn \in DOMAIN tasks
                    /\ r.cluster_arn = tasks[r.task_arn].clusterArn
        /\ (got # <<>> /\ Len(StatedCandidates) = 1) => outcome = "returned"
        /\ (got = <<>> \/ Len(StatedCandidates) # 1) =>
              /\ outcome \in {"exit", "raised"}
              /\ result = {}

C3_Witness ==
    /\ ResolvedOnContainers
    /\ outcome = "returned"
    /\ Len(got) = 2
    /\ keywords # <<>>
    /\ \E r \in result : r.cluster_arn = ClusterStaging

\* C4: with no keyword and more than one collected container,
\* resolve_container logs the warning with the candidate count and exits with
\* failure status, not through an unhandled error.
C4_NoKeywordsIsReportedFailure ==
    (ResolvedOnContainers /\ keywords = <<>> /\ Len(got) > 1) =>
        /\ outcome = "exit"
        /\ error = "none"
        /\ WarnFound(Len(got)) \in log

\* the step of get_list that ends the cluster listing
FilterStep == pc = "clusters" /\ pc' # "clusters"

\* the positions of `clusters` whose identifier equals f (f starting with
\* arn:) or ends with / and f
StatedMatching(f) ==
    { i \in 1..Len(clusters) :
        \/ Len(f) >= 4 /\ SubSeq(f, 1, 4) = <<"a","r","n",":">> /\ clusters[i] = f
        \/ /\ Len(clusters[i]) > Len(f)
           /\ SubSeq(clusters[i], Len(clusters[i]) - Len(f), Len(clusters[i])) = <<"/">> \o f }

\* C10: with a cluster filter f, the surviving list is the first listed
\* cluster that equals f (f starting with arn:) or ends with /f, and is empty
\* when there is none, in which case get_list warns and returns an empty
\* result; [prod, staging] with prod gives [prod], and with nonexistent [].
C10_ClusterFilter ==
    [][(FilterStep /\ Truthy(args_cluster)) =>
          LET m == StatedMatching(args_cluster)
          IN  /\ Len(clusters') <= 1
              /\ m # {} => clusters' = << clusters[CHOOSE i \in m : \A j \in m : i <= j] >>
              /\ m = {} => /\ clusters' = <<>>
                           /\ pc' = "got_containers"
                           /\ got' = <<>>
                           /\ WarnNoClusters \in log'
                           /\ outcome' = "running"
                           /\ error' = "none"
              /\ (clusters = <<ClusterProd, ClusterStaging>> /\ args_cluster = <<"p","r","o","d">>)
                    => clusters' = <<ClusterProd>>
              /\ (clusters = <<ClusterProd, ClusterStaging>>
                    /\ args_cluster = <<"n","o","n","e","x","i","s","t","e","n","t">>)
                    => clusters' = <<>>
      ]_vars

C10_Witness ==
    /\ pc = "tasks"
    /\ args_cluster = <<"p","r","o","d">>
    /\ clusters = <<ClusterProd>>

\* the (task_arn, container_name) pairs of the records of a list
RecordKeys(list) == { <<list[i].task_arn, list[i].container_name>> : i \in 1..Len(list) }

\* C11: a record exists for a container of a described task iff the container
\* was described with an ExecuteCommandAgent whose lastStatus is RUNNING (every
\* such container gets one, no other container does), and get_list returns
\* these records.
C11_RecordIffRunningAgent ==
    /\ RecordKeys(containers) = ran
    /\ pc = "got_containers" => got = containers

\* C13: the sequence get_list returns never holds two records with the same
\* (task_arn, container_name), whatever the pages list (a task listed twice, a
\* container with two running execute-command agent entries).
C13_NoDuplicateRecords ==
    pc \in {"got_containers", "done"} =>
        \A i, j \in 1..Len(got) :
            (got[i].task_arn = got[j].task_arn /\ got[i].container_name = got[j].container_name)
                => i = j

====
